---- MODULE Spec2Model ----
(***************************************************************************)
(* A model of the Sudoku solver of src/Sudoku.py: the conflict check       *)
(* is_valid_value, the value ordering sorted_values, forward_checking and  *)
(* the recursive backtracking procedure solve, unfolded into an explicit   *)
(* call stack with one step per statement group of the procedure; and the  *)
(* puzzle generator generate with delete, one step per random choice.      *)
(*                                                                         *)
(* Positions are pairs <<row, col>> with 0-based coordinates as in the     *)
(* source; a board is a function from positions to 0..9 (0 = empty); a     *)
(* domain table is a function from positions to ascending lists of digits. *)
(***************************************************************************)
EXTENDS Integers, Sequences, FiniteSets, TLC

\* ---------------------------------------------------------------- bounds
\* Largest number of leading cells (row-major) cleared from pre_solved in
\* the inputs that are enumerated cell by cell.
MaxRun == 18

\* the rounds of the shuffling loop of generate that are run
MaxRounds == 1

\* the largest size, below that of the game, generate is called with
MaxSize == 2

\* the largest num generate is called with for the size of the game
MaxNum == 1

\* ------------------------------------------------------------- constants
\* board.shape[0] = board.shape[1] of the 9x9 grid
N == 9
\* side of a square (start_row = row - row % 3)
Box == 3

Rows == 0 .. (N - 1)
Pos == Rows \X Rows
\* range(1, 10)
Digits == 1 .. 9

PreRows ==
  << <<5, 3, 4, 6, 7, 8, 9, 1, 2>>,
     <<6, 7, 2, 1, 9, 5, 3, 4, 8>>,
     <<1, 9, 8, 3, 4, 2, 5, 6, 7>>,
     <<8, 5, 9, 7, 6, 1, 4, 2, 3>>,
     <<4, 2, 6, 8, 5, 3, 7, 9, 1>>,
     <<7, 1, 3, 9, 2, 4, 8, 5, 6>>,
     <<9, 6, 1, 5, 3, 7, 2, 8, 4>>,
     <<2, 8, 7, 4, 1, 9, 6, 3, 5>>,
     <<3, 4, 5, 2, 8, 6, 1, 7, 9>> >>

pre_solved == [p \in Pos |-> PreRows[p[1] + 1][p[2] + 1]]

\* ------------------------------------------------------------ positions
\* The i-th position (i = 0 .. N*N-1) in row-major order, the order in which
\* np.argwhere lists the cells of a board.
PosAt(i) == <<i \div N, i % N>>

AllCells == [i \in 1 .. (N * N) |-> PosAt(i - 1)]

\* np.argwhere(board == 0): the empty cells in row-major order
argwhere(b) == SelectSeq(AllCells, LAMBDA p : b[p] = 0)

Range(s) == {s[i] : i \in 1 .. Len(s)}

\* the test of line 51 looking at the first row only (0 in board[0])
HasZero_first_row(b) == 0 \in {b[<<0, c>>] : c \in Rows}

\* the test of line 51 with its negation lost
HasZero_negated(b) == 0 \notin {b[p] : p \in Pos}

\* 0 in board
HasZero(b) == 0 \in {b[p] : p \in Pos}

\* ------------------------------------------------------ is_valid_value
RowCells(row) == [i \in 1 .. N |-> <<row, i - 1>>]

\* the column scan stopping one row short: range(board.shape[0] - 1)
ColCells_short(col) == [i \in 1 .. N - 1 |-> <<i - 1, col>>]

ColCells(col) == [i \in 1 .. N |-> <<i - 1, col>>]

BoxCells(row, col) ==
  LET start_row == row - (row % Box)
      start_col == col - (col % Box)
  IN  [i \in 1 .. (Box * Box) |->
         <<start_row + ((i - 1) \div Box), start_col + ((i - 1) % Box)>>]

\* is_valid_value with the scan of the column (line 17) left out
is_valid_value_no_column(b, position, value) ==
  LET row == position[1]
      col == position[2]
      c1 == SelectSeq(RowCells(row), LAMBDA q : b[q] = value)
      c3 == c1 \o SelectSeq(BoxCells(row, col),
                            LAMBDA q : b[q] = value /\ q \notin Range(c1))
  IN  [valid |-> Len(c3) = 0, conflicts |-> c3]

\* is_valid_value with the scan of the 3x3 square (lines 20-21) left out
is_valid_value_no_box(b, position, value) ==
  LET row == position[1]
      col == position[2]
      c1 == SelectSeq(RowCells(row), LAMBDA q : b[q] = value)
      c2 == c1 \o SelectSeq(ColCells(col),
                            LAMBDA q : b[q] = value /\ q \notin Range(c1))
  IN  [valid |-> Len(c2) = 0, conflicts |-> c2]

is_valid_value(b, position, value) ==
  LET row == position[1]
      col == position[2]
      c1 == SelectSeq(RowCells(row), LAMBDA q : b[q] = value)
      c2 == c1 \o SelectSeq(ColCells(col),
                            LAMBDA q : b[q] = value /\ q \notin Range(c1))
      c3 == c2 \o SelectSeq(BoxCells(row, col),
                            LAMBDA q : b[q] = value /\ q \notin Range(c2))
  IN  [valid |-> Len(c3) = 0, conflicts |-> c3]

\* -------------------------------------------------------- stable sorting
\* sorted(list, key = ...): the list ordered ascending by key, elements of
\* equal key in their original order (Python's sort is stable).  key is a
\* function on the elements.  Place gives, for the element at index i, its
\* index in the result: one more than the number of elements that must
\* precede it.
\* the sort with the largest key first
Place_descending(s, key) ==
  [i \in 1 .. Len(s) |->
     1 + Cardinality({j \in 1 .. Len(s) :
                        \/ key[s[j]] > key[s[i]]
                        \/ key[s[j]] = key[s[i]] /\ j < i})]

\* the sort with elements of equal key in reverse order
Place_ties_reversed(s, key) ==
  [i \in 1 .. Len(s) |->
     1 + Cardinality({j \in 1 .. Len(s) :
                        \/ key[s[j]] < key[s[i]]
                        \/ key[s[j]] = key[s[i]] /\ j > i})]

Place(s, key) ==
  [i \in 1 .. Len(s) |->
     1 + Cardinality({j \in 1 .. Len(s) :
                        \/ key[s[j]] < key[s[i]]
                        \/ key[s[j]] = key[s[i]] /\ j < i})]

Arrange(s, place) ==
  [r \in 1 .. Len(s) |-> s[CHOOSE i \in 1 .. Len(s) : place[i] = r]]

\* The list, its keys and the places are each computed once and then read,
\* as local values are: they are bound as the one element of a set.
sorted(list, keys) ==
  CHOOSE t \in UNION {{Arrange(s, place) : place \in {Place(s, key)}} :
                        s \in {list}, key \in {keys}} : TRUE

\* -------------------------------------------------------- sorted_values
sorted_values(domains, unassigned, position) ==
  LET values == domains[position]
      affected == [v \in Range(values) |->
                     Cardinality({i \in 1 .. Len(unassigned) :
                                    v \in Range(domains[unassigned[i]])})]
  IN  sorted(values, affected)

\* ----------------------------------------------------------- get_domains
get_domains(b) ==
  [p \in Range(argwhere(b)) |-> [i \in 1 .. 9 |-> i]]

\* ------------------------------------------- neighbours, forward checking
get_horizontal(position, unassigned) ==
  {u \in Range(unassigned) : u[1] = position[1]}

get_vertical(position, unassigned) ==
  {u \in Range(unassigned) : u[2] = position[2]}

\* get_box with the block started at position itself (the alignment of
\* lines 149-150 left out)
get_box_unaligned(position, unassigned) ==
  LET start_row == position[1]
      start_column == position[2]
  IN  {u \in Range(unassigned) :
         /\ start_row <= u[1] /\ u[1] < start_row + Box
         /\ start_column <= u[2] /\ u[2] < start_column + Box}

get_box(position, unassigned) ==
  LET start_row == position[1] - (position[1] % Box)
      start_column == position[2] - (position[2] % Box)
  IN  {u \in Range(unassigned) :
         /\ start_row <= u[1] /\ u[1] < start_row + Box
         /\ start_column <= u[2] /\ u[2] < start_column + Box}

remove_value(domains, value, region) ==
  [r \in DOMAIN domains |->
     IF r \in region
     THEN SelectSeq(domains[r], LAMBDA v : v # value)
     ELSE domains[r]]

forward_checking(domains, unassigned, position, value) ==
  remove_value(domains, value,
               get_horizontal(position, unassigned)
                 \cup get_vertical(position, unassigned)
                 \cup get_box(position, unassigned))

\* forward_checking working on the table it is given (line 85 left out)
call_forward_checking_in_place(domains, unassigned, position, value) ==
  [given |-> forward_checking(domains, unassigned, position, value),
   returned |-> forward_checking(domains, unassigned, position, value)]

\* new_domains = forward_checking(domains, ...) as the caller sees it: the
\* table it passed, as the call leaves it (line 85 works on a deep copy, so
\* it is as before), and the table returned
call_forward_checking(domains, unassigned, position, value) ==
  [given |-> domains,
   returned |-> forward_checking(domains, unassigned, position, value)]

\* any(len(new_domains[tuple(d)]) == 0 for d in unassigned)
AnyEmpty(new_domains, unassigned) ==
  0 \in {Len(new_domains[unassigned[i]]) : i \in 1 .. Len(unassigned)}

\* ------------------------------------------------------------- the inputs
\* pre_solved with its first k cells (row-major) set to 0
ClearPrefix(k) == [p \in Pos |-> IF p[1] * N + p[2] < k THEN 0 ELSE pre_solved[p]]

\* The cell of the top-left square that is rewritten in the inputs: with its
\* own digit (8) the input is a part of pre_solved, with 0 the cell is one
\* more empty cell, with any other digit the input carries a repeated given.
GivenCell == <<2, 2>>

\* The boards handed to solve and to is_valid_value: pre_solved with a run
\* of leading cells cleared and GivenCell rewritten, and the all-zero board.
Inputs ==
  {[ClearPrefix(k) EXCEPT ![GivenCell] = w] : k \in 0 .. MaxRun, w \in 0 .. 9}
    \cup {ClearPrefix(N * N)}

\* ------------------------------------------------------------------ state
VARIABLES
  input,     \* the board handed to the top-level solve call
  board,     \* the one np.ndarray all invocations of solve share
  stack,     \* the active invocations of solve that are inside the loops
  pc,        \* "call": solve is being entered; "loop": the innermost
             \* invocation is at the head of `for value in values`;
             \* "ret": an invocation has just returned to its caller;
             \* "done": the top-level call has returned
  arg,       \* the domains argument of the call being entered:
             \* <<>> for None, <<table>> otherwise
  result,    \* "solved" for (board, True), "failed" for (None, False)
  retEntry,  \* the board as it was when the invocation that returned last
             \* was entered
  query,     \* the last direct call of is_valid_value on the board and what
             \* it returned: <<>> before any call, <<record>> afterwards
  fc,        \* the last call of forward_checking made by solve (line 65):
             \* <<>> before any call, <<record>> afterwards, with the
             \* arguments, the caller's table after the call (given), the
             \* table returned, the cells of the board that are empty once
             \* the value is placed, and whether line 66 found an empty
             \* domain
  gen        \* the call of generate in progress: its arguments size and
             \* num, the rounds of its loop that are done, the cells delete
             \* has cleared, and the solution once it is copied; <<>> when
             \* generate is not called

vars == <<input, board, stack, pc, arg, result, retEntry, query, fc, gen>>

Top == stack[Len(stack)]

Pop == SubSeq(stack, 1, Len(stack) - 1)

\* a loop that tries the same value again
Advance_stuck(f) == f

\* the loop of the innermost invocation moves on to the next value
Advance(f) == [f EXCEPT !.i = @ + 1]

AfterReturn == IF Len(stack) = 0 THEN "done" ELSE "ret"

Init ==
  /\ input \in Inputs
  /\ board = input
  /\ stack = <<>>
  /\ pc = "call"
  /\ arg = <<>>
  /\ result = "none"
  /\ retEntry = input
  /\ query = <<>>
  /\ fc = <<>>
  /\ gen = <<>>

\* lines 51-52: if not 0 in board: return board, True
SolveFull ==
  /\ pc = "call"
  /\ ~HasZero(board)
  /\ result' = "solved"
  /\ retEntry' = board
  /\ pc' = AfterReturn
  /\ arg' = <<>>
  /\ UNCHANGED <<input, board, stack, query, fc, gen>>

\* lines 53-59: build the domains when none were passed, list the empty
\* cells, sort them by domain size and order the values of the first one.
\* With no empty cell to iterate over the outer loop falls through to the
\* return of line 73.
SolveEnter ==
  /\ pc = "call"
  /\ HasZero(board)
  /\ \E domains \in {IF arg = <<>> THEN get_domains(board) ELSE arg[1]} :
     \E unassigned \in {argwhere(board)} :
     \E unassigned_sorted \in
          {sorted(unassigned,
                  [p \in Range(unassigned) |-> Len(domains[p])])} :
       IF unassigned_sorted = <<>>
       THEN /\ result' = "failed"
            /\ retEntry' = board
            /\ pc' = AfterReturn
            /\ stack' = stack
       ELSE /\ stack' = Append(stack,
                          [domains |-> domains,
                           unassigned |-> unassigned,
                           position |-> unassigned_sorted[1],
                           values |-> sorted_values(domains, unassigned,
                                                    unassigned_sorted[1]),
                           i |-> 1,
                           entry |-> board])
            /\ pc' = "loop"
            /\ UNCHANGED <<result, retEntry, gen>>
  /\ arg' = <<>>
  /\ UNCHANGED <<input, board, query, fc, gen>>

\* lines 60-63: the next value conflicts with the board: continue
SkipInvalid ==
  /\ pc = "loop"
  /\ Top.i <= Len(Top.values)
  /\ ~is_valid_value(board, Top.position, Top.values[Top.i]).valid
  /\ stack' = [stack EXCEPT ![Len(stack)] = Advance(@)]
  /\ UNCHANGED <<input, board, pc, arg, result, retEntry, query, fc, gen>>

\* what solve records of the call of line 65
CallRecord(f, value, c, b, dead) ==
  [domains |-> f.domains, unassigned |-> f.unassigned,
   position |-> f.position, value |-> value,
   given |-> c.given, returned |-> c.returned,
   empties |-> {p \in Pos : b[p] = 0}, dead |-> dead]

\* lines 60-67: the value is placed, forward checking empties a domain of
\* one of the cells of unassigned: continue
Dead ==
  /\ pc = "loop"
  /\ Top.i <= Len(Top.values)
  /\ is_valid_value(board, Top.position, Top.values[Top.i]).valid
  /\ \E value \in {Top.values[Top.i]} :
     \E c \in {call_forward_checking(Top.domains, Top.unassigned,
                                     Top.position, value)} :
       /\ AnyEmpty(c.returned, Top.unassigned)
       /\ board' = [board EXCEPT ![Top.position] = value]
       /\ stack' = [stack EXCEPT ![Len(stack)] =
                      Advance([@ EXCEPT !.domains = c.given])]
       /\ fc' = <<CallRecord(Top, value, c, board', TRUE)>>
  /\ UNCHANGED <<input, pc, arg, result, retEntry, query, gen>>

\* lines 60-68: the value is placed, no domain is empty: solve is called
\* with the new domains
Recurse ==
  /\ pc = "loop"
  /\ Top.i <= Len(Top.values)
  /\ is_valid_value(board, Top.position, Top.values[Top.i]).valid
  /\ \E value \in {Top.values[Top.i]} :
     \E c \in {call_forward_checking(Top.domains, Top.unassigned,
                                     Top.position, value)} :
       /\ ~AnyEmpty(c.returned, Top.unassigned)
       /\ board' = [board EXCEPT ![Top.position] = value]
       /\ stack' = [stack EXCEPT ![Len(stack)] =
                      [@ EXCEPT !.domains = c.given]]
       /\ arg' = <<c.returned>>
       /\ fc' = <<CallRecord(Top, value, c, board', FALSE)>>
  /\ pc' = "call"
  /\ UNCHANGED <<input, result, retEntry, query, gen>>

\* lines 69-70: the recursive call succeeded: return solved_board, True
ReturnSolved ==
  /\ pc = "ret"
  /\ result = "solved"
  /\ stack' = Pop
  /\ retEntry' = Top.entry
  /\ pc' = IF Len(stack) = 1 THEN "done" ELSE "ret"
  /\ UNCHANGED <<input, board, arg, result, query, fc, gen>>

\* line 71 indexing with the row alone: board[position[0]] = 0 clears the
\* whole row of the cell
UndoAssignment_row ==
  /\ pc = "ret"
  /\ result = "failed"
  /\ board' = [p \in Pos |-> IF p[1] = Top.position[1] THEN 0 ELSE board[p]]
  /\ stack' = [stack EXCEPT ![Len(stack)] = Advance(@)]
  /\ pc' = "loop"
  /\ UNCHANGED <<input, arg, result, retEntry, query, fc, gen>>

\* line 71: the recursive call failed: board[position] = 0, next value
UndoAssignment ==
  /\ pc = "ret"
  /\ result = "failed"
  /\ board' = [board EXCEPT ![Top.position] = 0]
  /\ stack' = [stack EXCEPT ![Len(stack)] = Advance(@)]
  /\ pc' = "loop"
  /\ UNCHANGED <<input, arg, result, retEntry, query, fc, gen>>

\* line 72: the values of the cell are exhausted: return None, False
Exhausted ==
  /\ pc = "loop"
  /\ Top.i > Len(Top.values)
  /\ result' = "failed"
  /\ retEntry' = Top.entry
  /\ stack' = Pop
  /\ pc' = IF Len(stack) = 1 THEN "done" ELSE "ret"
  /\ UNCHANGED <<input, board, arg, query, fc, gen>>

Next ==
  \/ SolveFull
  \/ SolveEnter
  \/ SkipInvalid
  \/ Dead
  \/ Recurse
  \/ ReturnSolved
  \/ UndoAssignment
  \/ Exhausted

Spec == Init /\ [][Next]_vars

\* solve runs to completion: no step of it waits for anything
FairSpec == Spec /\ WF_vars(Next)

\* ------------------------------------------- direct use of is_valid_value
\* The interactive collaborator calls is_valid_value on a board, for any
\* position and any digit, outside of any search.  The function is pure and
\* leaves the board alone, so one call per behaviour shows every result.
InitValid ==
  /\ input \in Inputs
  /\ board = input
  /\ stack = <<>>
  /\ pc = "api"
  /\ arg = <<>>
  /\ result = "none"
  /\ retEntry = input
  /\ query = <<>>
  /\ fc = <<>>
  /\ gen = <<>>

CheckValue ==
  /\ pc = "api"
  /\ query = <<>>
  /\ \E position \in Pos, value \in Digits :
       LET r == is_valid_value(board, position, value)
       IN  query' = <<[position |-> position, value |-> value,
                      valid |-> r.valid, conflicts |-> r.conflicts]>>
  /\ UNCHANGED <<input, board, stack, pc, arg, result, retEntry, fc, gen>>

\* The value of the call is placed at its position on a copy of the board and
\* is_valid_value is called for one of the cells the first call listed,
\* with the same value.  The second call is recorded with the board it was
\* made on.
CheckBack ==
  /\ pc = "api"
  /\ Len(query) = 1
  /\ \E k \in 1 .. Len(query[1].conflicts) :
       /\ query[1].conflicts[k] # query[1].position
       /\ \E placed \in {[board EXCEPT ![query[1].position] = query[1].value]} :
          \E r \in {is_valid_value(placed, query[1].conflicts[k],
                                    query[1].value)} :
            query' = Append(query,
                            [position |-> query[1].conflicts[k],
                             value |-> query[1].value,
                             valid |-> r.valid, conflicts |-> r.conflicts,
                             board |-> placed])
  /\ UNCHANGED <<input, board, stack, pc, arg, result, retEntry, fc, gen>>

NextValid == CheckValue \/ CheckBack

SpecValid == InitValid /\ [][NextValid]_vars

\* ================================================================ generate
\* generate(board, size, num) on a copy of pre_solved, as Grid.__init__ and
\* Grid.reset call it.  Every random choice is a choice of the step.  The loop
\* of line 165 is run MaxRounds times; size and num are drawn from GenArgs.

\* the rows (columns) of a band: range(box * 3, (box + 1) * 3)
BandIndices_any(box) == 0 .. (N - 1)

BandIndices(box) == (box * 3) .. ((box + 1) * 3 - 1)

\* board[[r1, r2], :] = board[[r2, r1], :]
swap_rows(b, r1, r2) ==
  [p \in Pos |-> IF p[1] = r1 THEN b[<<r2, p[2]>>]
                 ELSE IF p[1] = r2 THEN b[<<r1, p[2]>>]
                 ELSE b[p]]

\* board[:, [c1, c2]] = board[:, [c2, c1]]
swap_columns(b, c1, c2) ==
  [p \in Pos |-> IF p[2] = c1 THEN b[<<p[1], c2>>]
                 ELSE IF p[2] = c2 THEN b[<<p[1], c1>>]
                 ELSE b[p]]

\* the cells the loop of lines 188-192 can leave with: any cell of the
\* first size rows and columns
delete_pick_any(b, size) ==
  {p \in Pos : p[1] < size /\ p[2] < size}

\* the cells the loop of lines 188-192 can leave with: a cell of the first
\* size rows and columns that is not 0
delete_pick(b, size) ==
  {p \in Pos : p[1] < size /\ p[2] < size /\ b[p] # 0}

\* the arguments size and num: every num for a small size, and the first
\* values of num for the size of the game
GenArgs ==
  {a \in (1 .. MaxSize) \X (0 .. (MaxSize * MaxSize)) : a[2] <= a[1] * a[1]}
    \cup {<<N, num>> : num \in 0 .. MaxNum}

InitGen ==
  /\ input = pre_solved
  /\ board = input
  /\ stack = <<>>
  /\ pc = "rows"
  /\ arg = <<>>
  /\ result = "none"
  /\ retEntry = input
  /\ query = <<>>
  /\ fc = <<>>
  /\ \E a \in GenArgs :
       gen = [size |-> a[1], num |-> a[2], round |-> 0, deleted |-> 0,
              solution |-> <<>>]

\* lines 166-169: with rand() > 0.5 two rows of one band, drawn with
\* replacement, are swapped
SwapRows ==
  /\ pc = "rows"
  /\ gen.round < MaxRounds
  /\ \/ board' = board
     \/ \E box \in 0 .. 2 : \E r1, r2 \in BandIndices(box) :
          board' = swap_rows(board, r1, r2)
  /\ pc' = "columns"
  /\ UNCHANGED <<input, stack, arg, result, retEntry, query, fc, gen>>

\* lines 170-173: the same for two columns of one band; the round is over
SwapColumns ==
  /\ pc = "columns"
  /\ \/ board' = board
     \/ \E box \in 0 .. 2 : \E c1, c2 \in BandIndices(box) :
          board' = swap_columns(board, c1, c2)
  /\ pc' = "rows"
  /\ gen' = [gen EXCEPT !.round = @ + 1]
  /\ UNCHANGED <<input, stack, arg, result, retEntry, query, fc>>

\* line 174: solution = board.copy(), and delete is entered
CopySolution ==
  /\ pc = "rows"
  /\ gen.round = MaxRounds
  /\ gen' = [gen EXCEPT !.solution = board]
  /\ pc' = "delete"
  /\ UNCHANGED <<input, board, stack, arg, result, retEntry, query, fc>>

\* lines 186-193: one round of the loop of delete
DeleteCell ==
  /\ pc = "delete"
  /\ gen.deleted < gen.num
  /\ \E p \in delete_pick(board, gen.size) :
       board' = [board EXCEPT ![p] = 0]
  /\ gen' = [gen EXCEPT !.deleted = @ + 1]
  /\ UNCHANGED <<input, stack, pc, arg, result, retEntry, query, fc>>

\* lines 194 and 176: delete returns the board, generate returns it with
\* the solution
ReturnGenerated ==
  /\ pc = "delete"
  /\ gen.deleted = gen.num
  /\ pc' = "generated"
  /\ UNCHANGED <<input, board, stack, arg, result, retEntry, query, fc, gen>>

NextGen ==
  \/ SwapRows
  \/ SwapColumns
  \/ CopySolution
  \/ DeleteCell
  \/ ReturnGenerated

SpecGen == InitGen /\ [][NextGen]_vars

\* ============================================================ properties
\* The notions the claims are stated in, defined on boards alone.
Empties(b) == {p \in Pos : b[p] = 0}

RowUnit(r) == {<<r, c>> : c \in Rows}

ColUnit(c) == {<<r, c>> : r \in Rows}

BoxUnit(i, j) ==
  {<<r, c>> : r \in (3 * i) .. (3 * i + 2), c \in (3 * j) .. (3 * j + 2)}

Boxes == {BoxUnit(i, j) : i \in 0 .. 2, j \in 0 .. 2}

Units == {RowUnit(r) : r \in Rows} \cup {ColUnit(c) : c \in Rows} \cup Boxes

\* no digit occurs twice in any of the given units
NoRepeat(b, units) ==
  \A u \in units : \A v \in Digits : Cardinality({p \in u : b[p] = v}) <= 1

ConflictFree(b) == NoRepeat(b, Units)

\* every row, column and square holds each digit exactly once
CompleteValid(b) == \A u \in Units : {b[p] : p \in u} = Digits

\* c is a valid completion of b
IsCompletion(c, b) ==
  /\ CompleteValid(c)
  /\ \A p \in Pos : b[p] # 0 => c[p] = b[p]

\* the cells other than p in the row, the column and the square of p
Peers(p) == {q \in Pos : q # p /\ \E u \in Units : p \in u /\ q \in u}

\* number of invocations of solve that have been entered and not returned
ActiveInvocations == Len(stack) + (IF pc = "call" THEN 1 ELSE 0)

\* nesting depth of the innermost active invocation; the top-level call is
\* at depth 0
NestingDepth == ActiveInvocations - 1

Returned == pc \in {"ret", "done"}

\* C1: for a conflict-free input, when solve returns success the board has
\* no empty cell and every row, column and square holds each digit 1-9
\* exactly once.
C1_SolvedBoardIsValid ==
  (pc = "done" /\ result = "solved" /\ ConflictFree(input))
    => (Empties(board) = {} /\ CompleteValid(board))

\* a search (not the immediate return on a full board) has ended in success
C1_Witness ==
  pc = "done" /\ result = "solved" /\ ConflictFree(input)
    /\ Empties(input) # {}

\* C2 as claimed: whenever the top-level solve returns (None, False) the
\* input board has no valid completion; the reference grid pre_solved is
\* the candidate completion looked at.
C2_Complete ==
  (pc = "done" /\ result = "failed") => ~IsCompletion(pre_solved, input)

\* C3 as claimed, on the conflict-free inputs the solver is specified for:
\* whenever an invocation of solve returns failure, the board equals the
\* board at the moment that invocation was entered.
C3_StrictUndo ==
  (Returned /\ result = "failed" /\ ConflictFree(input))
    => board = retEntry

\* C4: starting from a conflict-free input, in every state of a solve run
\* no two non-zero cells sharing a row, a column or a square hold the same
\* value.
C4_BoardStaysConflictFree ==
  ConflictFree(input) => ConflictFree(board)

\* an invocation has returned failure and left one of its assignments on
\* the board, and values have been tried after that
C4_Witness ==
  /\ ConflictFree(input)
  /\ pc = "loop"
  /\ result = "failed"
  /\ \E p \in Pos : Top.entry[p] = 0 /\ board[p] # 0 /\ p # Top.position

\* C5 as claimed: is_valid_value returns (True, []) exactly when no cell
\* other than position in its row, column or square holds value; otherwise
\* False with a list containing every such cell.
C5_ConflictCheck ==
  query # <<>> =>
    LET q == query[1]
        others == {c \in Peers(q.position) : board[c] = q.value}
    IN  /\ q.valid <=> others = {}
        /\ q.valid => q.conflicts = <<>>
        /\ ~q.valid => others \subseteq Range(q.conflicts)

\* C6: solve on a board without empty cell returns success and no cell is
\* ever changed.
C6_FullBoardUnchanged ==
  Empties(input) = {}
    => (board = input /\ (pc = "done" => result = "solved"))

C6_Witness == pc = "done" /\ Empties(input) = {}

\* C7 as claimed: for an input in which two non-zero cells of one square
\* hold the same value, solve returns (None, False), never success.
C7_RepeatedGivenIsUnsolvable ==
  (pc = "done" /\ ~NoRepeat(input, Boxes)) => result = "failed"

\* C8: solve on the all-zero board returns success with a completely filled
\* board in which no digit repeats in any row, column or square.
C8_EmptyBoardSolved ==
  (pc = "done" /\ Empties(input) = Pos)
    => (result = "solved" /\ Empties(board) = {} /\ ConflictFree(board))

C8_Witness == pc = "done" /\ Empties(input) = Pos

\* C9 as claimed: for pre_solved with any set of cells set to 0, solve
\* returns success and the board is exactly pre_solved.
C9_ResolvesToReference ==
  (pc = "done" /\ \A p \in Pos : input[p] \in {0, pre_solved[p]})
    => (result = "solved" /\ board = pre_solved)

\* C10: solve terminates, and the nesting depth of its invocations (the
\* top-level call being at depth 0) never exceeds the number of empty cells
\* of the input board.
C10_TerminatesWithinDepth ==
  /\ <>(pc = "done")
  /\ [](NestingDepth <= Cardinality(Empties(input)))

\* the recursion is as deep as the input has empty cells
C10_Witness ==
  NestingDepth > 0 /\ NestingDepth = Cardinality(Empties(input))

\* ---- forward_checking as solve calls it ----

\* the cells of a list of positions
Cells(list) == {list[k] : k \in 1 .. Len(list)}

\* the values of a candidate list
Candidates(list) == {list[k] : k \in 1 .. Len(list)}

\* one call of forward_checking has been made and recorded
Called == fc # <<>>

\* the cells of unassigned that share a row, a column or a block with the
\* position of the recorded call, position itself left out
OtherNeighbours == Cells(fc[1].unassigned) \cap Peers(fc[1].position)

\* C11: after forward_checking(domains, unassigned, position, value), no
\* cell of unassigned that shares the row, the column or the block of
\* position lists value in the table returned.
C11_ValueRemovedFromNeighbours ==
  Called =>
    \A u \in Cells(fc[1].unassigned) :
      (\E unit \in Units : u \in unit /\ fc[1].position \in unit)
        => fc[1].value \notin Candidates(fc[1].returned[u])

\* a call that had the value to remove from a neighbour in the same block
\* and in neither the row nor the column of position
C11_Witness ==
  /\ Called
  /\ \E u \in OtherNeighbours :
       /\ u[1] # fc[1].position[1]
       /\ u[2] # fc[1].position[2]
       /\ fc[1].value \in Candidates(fc[1].domains[u])
       /\ fc[1].value \notin Candidates(fc[1].returned[u])

\* C12: forward_checking changes only the neighbours, the other unassigned
\* cells in the row, column or block of position: every cell outside that
\* set, position included, has the candidate list it had, and inside the
\* set nothing but value is removed.
C12_OnlyNeighboursChange ==
  Called =>
    /\ DOMAIN fc[1].returned = DOMAIN fc[1].domains
    /\ \A p \in DOMAIN fc[1].domains :
         IF p \in OtherNeighbours
         THEN Candidates(fc[1].returned[p]) \cup {fc[1].value}
                = Candidates(fc[1].domains[p]) \cup {fc[1].value}
         ELSE fc[1].returned[p] = fc[1].domains[p]

\* C16: a branch is declared dead without recursing only if some cell that
\* is still empty on the board, other than the one just assigned, has an
\* empty candidate list after forward checking.
C16_DeadOnlyForAnEmptyCell ==
  (Called /\ fc[1].dead) =>
    \E u \in fc[1].empties \ {fc[1].position} : Len(fc[1].returned[u]) = 0

\* C17: at the entry of every recursive invocation of solve the domain
\* table agrees with the board: the value of a cell that was empty in the
\* input and is filled now is in the candidate list of none of the empty
\* cells of its row, column and block.
C17_TableAgreesWithBoard ==
  (pc = "call" /\ arg # <<>>) =>
    \A c \in Empties(board) : \A n \in Peers(c) :
      (input[n] = 0 /\ board[n] # 0)
        => board[n] \notin Candidates(arg[1][c])

C13_ConflictIsSymmetric ==
  (/\ Len(query) = 2
   /\ query[2].position # query[1].position
   /\ query[2].position \in Cells(query[1].conflicts)
   /\ query[2].value = query[1].value
   /\ query[2].board = [board EXCEPT ![query[1].position] = query[1].value])
    => (/\ ~query[2].valid
        /\ query[1].position \in Cells(query[2].conflicts))

\* a call back from a cell of the same column, in another block, to a
\* position that was empty before the value was placed
C13_Witness ==
  /\ Len(query) = 2
  /\ query[2].position # query[1].position
  /\ query[2].position \in Cells(query[1].conflicts)
  /\ query[2].position[2] = query[1].position[2]
  /\ query[2].position[1] \div 3 # query[1].position[1] \div 3
  /\ board[query[1].position] = 0
  /\ query[2].board[query[1].position] = query[1].value

\* ---- generate ----

\* generate has returned
Generated == pc = "generated"

\* C14: for the valid solved board generate is given and every outcome of
\* the random choices, the solution generate returns is complete and every
\* row, column and block of it holds each digit exactly once.
C14_SolutionIsValid ==
  Generated => CompleteValid(gen.solution)

\* a solution in which both rows and columns were swapped: one of its rows
\* is no row of the input and one of its columns is no column of the input
C14_Witness ==
  /\ Generated
  /\ CompleteValid(input)
  /\ \E r \in Rows : \A q \in Rows :
       \E c \in Rows : gen.solution[<<r, c>>] # input[<<q, c>>]
  /\ \E c \in Rows : \A d \in Rows :
       \E r \in Rows : gen.solution[<<r, c>>] # input[<<r, d>>]

\* C15: the puzzle generate returns has exactly num empty cells and holds
\* the value of the solution at every other cell.
C15_PuzzleMatchesSolution ==
  Generated =>
    /\ Cardinality(Empties(board)) = gen.num
    /\ \A p \in Pos : board[p] # 0 => board[p] = gen.solution[p]

\* a puzzle with every cell delete can reach cleared, several of them
C15_Witness ==
  /\ Generated
  /\ gen.num >= 2
  /\ gen.num = gen.size * gen.size
  /\ Cardinality(Empties(board)) = gen.num
  /\ gen.solution # input

\* ---- the cell and the values an invocation of solve works on ----

\* an invocation of solve has just chosen its cell and ordered its values
Entered == pc = "loop" /\ stack # <<>> /\ stack[Len(stack)].i = 1

\* the place of a cell in row-major order
RowMajor(p) == p[1] * 9 + p[2]

\* C18: each invocation of solve assigns values to one cell only, the
\* empty cell with the smallest candidate list in its table, the first in
\* row-major order among equals, and returns failure once the values of
\* that cell are exhausted without turning to a second cell.
C18_OneCellPerInvocation ==
  /\ [](Entered =>
         LET f == stack[Len(stack)]
         IN  /\ f.entry[f.position] = 0
             /\ \A u \in Empties(f.entry) :
                  \/ Len(f.domains[u]) > Len(f.domains[f.position])
                  \/ /\ Len(f.domains[u]) = Len(f.domains[f.position])
                     /\ RowMajor(f.position) <= RowMajor(u))
  /\ [][/\ \A k \in 1 .. Len(stack) :
             (k <= Len(stack')) => (stack'[k].position = stack[k].position)
        /\ (board' # board) =>
             (/\ stack # <<>>
              /\ \A p \in Pos :
                   (board'[p] # board[p]) => (p = stack[Len(stack)].position))
        /\ (Len(stack') < Len(stack) /\ result' = "failed") =>
             (stack[Len(stack)].i > Len(stack[Len(stack)].values))]_vars

\* an invocation whose cell is not the first empty cell of the board: a
\* smaller candidate list decided
C18_Witness ==
  /\ Entered
  /\ \E u \in Empties(stack[Len(stack)].entry) :
       /\ RowMajor(u) < RowMajor(stack[Len(stack)].position)
       /\ Len(stack[Len(stack)].domains[u])
            > Len(stack[Len(stack)].domains[stack[Len(stack)].position])

\* in how many of the cells the candidate lists of table d hold value v
Holders(d, cells, v) ==
  Cardinality({u \in cells : v \in Candidates(d[u])})

\* list is ordered ascending by the number of holders among cells, values
\* of equal number in the order of the candidate list they come from
OrderedBy(list, from, d, cells) ==
  \A a, b \in 1 .. Len(list) :
    a < b =>
      \/ Holders(d, cells, list[a]) < Holders(d, cells, list[b])
      \/ /\ Holders(d, cells, list[a]) = Holders(d, cells, list[b])
         /\ \E x, y \in 1 .. Len(from) :
              x < y /\ from[x] = list[a] /\ from[y] = list[b]

\* C20: sorted_values returns a permutation of the candidate list of the
\* selected cell, ascending by the number of unassigned cells whose
\* candidate list holds the value, values of equal number in the order of
\* the candidate list; counting the selected cell or not gives one order.
C20_ValuesOrderedByHolders ==
  Entered =>
    LET f == stack[Len(stack)]
        from == f.domains[f.position]
    IN  /\ Len(f.values) = Len(from)
        /\ Candidates(f.values) = Candidates(from)
        /\ OrderedBy(f.values, from, f.domains, Empties(f.entry))
        /\ OrderedBy(f.values, from, f.domains,
                     Empties(f.entry) \ {f.position})

\* values that leave the order of the candidate list, some of them with the
\* same number of holders
C20_Witness ==
  /\ Entered
  /\ stack[Len(stack)].values
       # stack[Len(stack)].domains[stack[Len(stack)].position]
  /\ \E a \in 1 .. Len(stack[Len(stack)].values) - 1 :
       Holders(stack[Len(stack)].domains, Empties(stack[Len(stack)].entry),
               stack[Len(stack)].values[a])
         = Holders(stack[Len(stack)].domains,
                   Empties(stack[Len(stack)].entry),
                   stack[Len(stack)].values[a + 1])

\* ---- the given cells ----

\* C21: given cells are never touched: in every state of a run of solve,
\* and so in any board returned, every cell that is not 0 in the input
\* holds its input value.
C21_GivensUntouched ==
  \A p \in Pos : input[p] # 0 => board[p] = input[p]

\* a run on an input with given cells that has returned after writing to
\* the board and taking a value back, with a cell next to a given cell
\* left changed
C21_Witness ==
  /\ Returned
  /\ \E p \in Pos : input[p] # 0
  /\ \E p \in Pos :
       /\ input[p] = 0
       /\ board[p] # 0
       /\ \E q \in Peers(p) : input[q] # 0
  /\ \E p \in Pos : input[p] = 0 /\ board[p] = 0
====
